---- MODULE Spec2Model ----
(***************************************************************************)
(* Model of package tensors (sharnoff/tensors): the Interpreter's          *)
(* index <-> point conversions and the concurrent traversal                *)
(* generalMapApply behind MapApply, MapApplySafe and MapApplyFast.         *)
(*                                                                         *)
(* Go slices are 0-based, TLA+ sequences 1-based: axis k of the source is  *)
(* position k+1 of a sequence here.  Axis numbers carried inside error     *)
(* values are the source's 0-based ones.                                   *)
(***************************************************************************)
EXTENDS Integers, Sequences, FiniteSets, TLC

(* ------------------------------ bounds -------------------------------- *)

\* longest dimension vector explored
MaxRank == 2

\* largest in.Size() explored
MaxSize == 4

\* largest ThreadingOptions.NumThreads explored
MaxThreads == 2

\* largest ThreadingOptions.OpsPerThread explored
MaxOps == 3

\* largest in.Size() explored under fairness
MaxLiveSize == 2

\* longest dims argument of NewInterpreterSafe explored in direct calls
MaxInterpRank == 3

\* largest Size() of an Interpreter explored in direct calls
MaxInterpSize == 12

(* ------------------------------ errors -------------------------------- *)

\* the nil error
Nil == [kind |-> "nil", args |-> <<>>]

ErrZeroDims == [kind |-> "ErrZeroDims", args |-> <<>>]

ErrZeroPoint == [kind |-> "ErrZeroPoint", args |-> <<>>]

ErrIndexZero == [kind |-> "ErrIndexZero", args |-> <<>>]

ErrIndexSize == [kind |-> "ErrIndexSize", args |-> <<>>]

ErrChangeTooBig == [kind |-> "ErrChangeTooBig", args |-> <<>>]

ErrPointOutOfSync == [kind |-> "ErrPointOutOfSync", args |-> <<>>]

ErrNilFunction == [kind |-> "ErrNilFunction", args |-> <<>>]

\* DimsValueError{dims, index}
DimsValueError(i) == [kind |-> "DimsValueError", args |-> <<i>>]

\* LengthMismatchError{"point", is, shouldBe}
LengthMismatchError(is, shouldBe) == [kind |-> "LengthMismatchError", args |-> <<is, shouldBe>>]

\* PointOutOfBoundsError{point, dims, index}
PointOutOfBoundsError(i) == [kind |-> "PointOutOfBoundsError", args |-> <<i>>]

\* the error value a failing visitor returns for the given index
VisitorError(i) == [kind |-> "VisitorError", args |-> <<i>>]

(* ---------------------------- Interpreter ----------------------------- *)

\* mutant of SizesOf: the running sizes are summed instead of multiplied
SizesOfSummed(dims) ==
    LET sizes[i \in 1..Len(dims)] ==
            IF i = 1 THEN dims[1] ELSE sizes[i - 1] + dims[i]
    IN  [i \in 1..Len(dims) |-> sizes[i]]

\* sizes[0] = dims[0]; sizes[i] = sizes[i-1] * dims[i]
SizesOf(dims) ==
    LET sizes[i \in 1..Len(dims)] ==
            IF i = 1 THEN dims[1] ELSE sizes[i - 1] * dims[i]
    IN  [i \in 1..Len(dims) |-> sizes[i]]

\* mutant of NewInterpreterSafe: the highest axis with an entry <= 0 is reported
NewInterpreterSafeLast(dims) ==
    IF Len(dims) = 0
    THEN [in |-> [Dims |-> <<>>, Sizes |-> <<>>], err |-> ErrZeroDims]
    ELSE IF \E i \in 1..Len(dims) : dims[i] <= 0
    THEN LET i == CHOOSE k \in 1..Len(dims) :
                      /\ dims[k] <= 0
                      /\ \A j \in (k + 1)..Len(dims) : dims[j] > 0
         IN  [in |-> [Dims |-> <<>>, Sizes |-> <<>>], err |-> DimsValueError(i - 1)]
    ELSE [in |-> [Dims |-> dims, Sizes |-> SizesOf(dims)], err |-> Nil]

NewInterpreterSafe(dims) ==
    IF Len(dims) = 0
    THEN [in |-> [Dims |-> <<>>, Sizes |-> <<>>], err |-> ErrZeroDims]
    ELSE IF \E i \in 1..Len(dims) : dims[i] <= 0
    THEN LET i == CHOOSE k \in 1..Len(dims) :
                      /\ dims[k] <= 0
                      /\ \A j \in 1..(k - 1) : dims[j] > 0
         IN  [in |-> [Dims |-> <<>>, Sizes |-> <<>>], err |-> DimsValueError(i - 1)]
    ELSE [in |-> [Dims |-> dims, Sizes |-> SizesOf(dims)], err |-> Nil]

Size(in) == in.Sizes[Len(in.Sizes)]

\* mutant of CheckPoint: the highest axis out of bounds is reported
CheckPointLast(in, p) ==
    IF Len(p) = 0 THEN ErrZeroPoint
    ELSE IF Len(p) # Len(in.Sizes) THEN LengthMismatchError(Len(p), Len(in.Sizes))
    ELSE IF \E i \in 1..Len(p) : p[i] < 0 \/ p[i] >= in.Dims[i]
    THEN LET i == CHOOSE k \in 1..Len(p) :
                      /\ (p[k] < 0 \/ p[k] >= in.Dims[k])
                      /\ \A j \in (k + 1)..Len(p) : ~(p[j] < 0 \/ p[j] >= in.Dims[j])
         IN  PointOutOfBoundsError(i - 1)
    ELSE Nil

CheckPoint(in, p) ==
    IF Len(p) = 0 THEN ErrZeroPoint
    ELSE IF Len(p) # Len(in.Sizes) THEN LengthMismatchError(Len(p), Len(in.Sizes))
    ELSE IF \E i \in 1..Len(p) : p[i] < 0 \/ p[i] >= in.Dims[i]
    THEN LET i == CHOOSE k \in 1..Len(p) :
                      /\ (p[k] < 0 \/ p[k] >= in.Dims[k])
                      /\ \A j \in 1..(k - 1) : ~(p[j] < 0 \/ p[j] >= in.Dims[j])
         IN  PointOutOfBoundsError(i - 1)
    ELSE Nil

\* mutant of IndexFast: a coordinate is weighted by the previous dimension
IndexFastDims(in, p) ==
    LET acc[i \in 1..Len(in.Sizes)] ==
            IF i = 1 THEN p[1] ELSE acc[i - 1] + p[i] * in.Dims[i - 1]
    IN  acc[Len(in.Sizes)]

\* index := point[0]; for i := 1; i < len(in.Sizes); i++ { index += point[i] * in.Sizes[i-1] }
IndexFast(in, p) ==
    LET acc[i \in 1..Len(in.Sizes)] ==
            IF i = 1 THEN p[1] ELSE acc[i - 1] + p[i] * in.Sizes[i - 1]
    IN  acc[Len(in.Sizes)]

IndexSafe(in, p) ==
    IF CheckPoint(in, p) # Nil
    THEN [index |-> 0, err |-> CheckPoint(in, p)]
    ELSE [index |-> IndexFast(in, p), err |-> Nil]

CheckIndex(in, index) ==
    IF index < 0 THEN ErrIndexZero
    ELSE IF index >= Size(in) THEN ErrIndexSize
    ELSE Nil

\* mutant of PointRem: the remainder is never taken
PointRemWhole(in, index, i) == index

\* the value of the loop variable `index` of PointSafe when the loop reaches
\* axis i (1-based), going from the last axis down
RECURSIVE PointRem(_, _, _)
PointRem(in, index, i) ==
    IF i >= Len(in.Dims) THEN index
    ELSE PointRem(in, index, i + 1) % in.Sizes[i]

PointSafe(in, index) ==
    IF CheckIndex(in, index) # Nil
    THEN [p |-> <<>>, err |-> CheckIndex(in, index)]
    ELSE [p |-> [i \in 1..Len(in.Dims) |->
                    IF i = 1 THEN PointRem(in, index, 1)
                    ELSE PointRem(in, index, i) \div in.Sizes[i - 1]],
          err |-> Nil]

\* mutant of IncrementFrom: an axis that carries is not reset to 0
RECURSIVE IncrementFromKeep(_, _, _)
IncrementFromKeep(in, p, i) ==
    IF i > Len(in.Dims) THEN [p |-> p, cont |-> TRUE]
    ELSE IF p[i] + 1 < in.Dims[i]
    THEN [p |-> [p EXCEPT ![i] = p[i] + 1], cont |-> TRUE]
    ELSE IF i = Len(in.Dims)
    THEN [p |-> [p EXCEPT ![i] = 0], cont |-> FALSE]
    ELSE IncrementFromKeep(in, p, i + 1)

\* the carry loop of IncrementFast from axis i (1-based) on
RECURSIVE IncrementFrom(_, _, _)
IncrementFrom(in, p, i) ==
    IF i > Len(in.Dims) THEN [p |-> p, cont |-> TRUE]
    ELSE IF p[i] + 1 < in.Dims[i]
    THEN [p |-> [p EXCEPT ![i] = p[i] + 1], cont |-> TRUE]
    ELSE IF i = Len(in.Dims)
    THEN [p |-> [p EXCEPT ![i] = 0], cont |-> FALSE]
    ELSE IncrementFrom(in, [p EXCEPT ![i] = 0], i + 1)

\* mutant of IncrementFast: at the maximal point nothing is written
IncrementFastNoWrap(in, p) ==
    IF IncrementFrom(in, p, 1).cont THEN IncrementFrom(in, p, 1) ELSE [p |-> p, cont |-> FALSE]

IncrementFast(in, p) == IncrementFrom(in, p, 1)

\* mutant of IncrementSafe: a point that fails CheckPoint is zeroed
IncrementSafeClearing(in, p) ==
    IF CheckPoint(in, p) # Nil
    THEN [p |-> [i \in 1..Len(p) |-> 0], cont |-> FALSE, err |-> CheckPoint(in, p)]
    ELSE [p |-> IncrementFast(in, p).p, cont |-> IncrementFast(in, p).cont, err |-> Nil]

IncrementSafe(in, p) ==
    IF CheckPoint(in, p) # Nil
    THEN [p |-> p, cont |-> FALSE, err |-> CheckPoint(in, p)]
    ELSE [p |-> IncrementFast(in, p).p, cont |-> IncrementFast(in, p).cont, err |-> Nil]

\* Point panics where PointSafe returns error
Point(in, index) == [p |-> PointSafe(in, index).p, panic |-> PointSafe(in, index).err]

\* mutant of DecrementFrom: an axis that borrows is not set to Dims[i] - 1
RECURSIVE DecrementFromNoBorrow(_, _, _)
DecrementFromNoBorrow(in, p, i) ==
    IF i > Len(in.Dims) THEN [p |-> p, cont |-> TRUE]
    ELSE IF p[i] - 1 >= 0
    THEN [p |-> [p EXCEPT ![i] = p[i] - 1], cont |-> TRUE]
    ELSE IF i = Len(in.Dims)
    THEN [p |-> [p EXCEPT ![i] = in.Dims[i] - 1], cont |-> FALSE]
    ELSE DecrementFromNoBorrow(in, p, i + 1)

\* the borrow loop of DecrementFast from axis i (1-based) on
RECURSIVE DecrementFrom(_, _, _)
DecrementFrom(in, p, i) ==
    IF i > Len(in.Dims) THEN [p |-> p, cont |-> TRUE]
    ELSE IF p[i] - 1 >= 0
    THEN [p |-> [p EXCEPT ![i] = p[i] - 1], cont |-> TRUE]
    ELSE IF i = Len(in.Dims)
    THEN [p |-> [p EXCEPT ![i] = in.Dims[i] - 1], cont |-> FALSE]
    ELSE DecrementFrom(in, [p EXCEPT ![i] = in.Dims[i] - 1], i + 1)

\* mutant of DecrementFast: at the all-zero point nothing is written
DecrementFastNoWrap(in, p) ==
    IF DecrementFrom(in, p, 1).cont THEN DecrementFrom(in, p, 1) ELSE [p |-> p, cont |-> FALSE]

DecrementFast(in, p) == DecrementFrom(in, p, 1)

DecrementSafe(in, p) ==
    IF CheckPoint(in, p) # Nil
    THEN [p |-> p, cont |-> FALSE, err |-> CheckPoint(in, p)]
    ELSE [p |-> DecrementFast(in, p).p, cont |-> DecrementFast(in, p).cont, err |-> Nil]

\* mutant of TooBig: a change of exactly Size() is let through
TooBigStrict(in, change) == change > Size(in) \/ change < -Size(in)

\* if change >= in.Size() ... else if change <= -in.Size()
TooBig(in, change) == change >= Size(in) \/ change <= -Size(in)

\* mutant of copy: the decoded point is dropped
copyNothing(dst, src) == dst

\* the builtin copy(dst, src): the first min(len(dst), len(src)) elements
copy(dst, src) == [i \in 1..Len(dst) |-> IF i <= Len(src) THEN src[i] ELSE dst[i]]

\* mutant of IncreaseBySafe: the point is validated before change is looked at
IncreaseBySafeChecked(in, p, change) ==
    IF CheckPoint(in, p) # Nil THEN [p |-> p, cont |-> FALSE, err |-> CheckPoint(in, p)]
    ELSE IF change = 0 THEN [p |-> p, cont |-> TRUE, err |-> Nil]
    ELSE IF change = 1 THEN IncrementSafe(in, p)
    ELSE IF change = -1 THEN DecrementSafe(in, p)
    ELSE IF TooBig(in, change) THEN [p |-> p, cont |-> FALSE, err |-> ErrChangeTooBig]
    ELSE LET newIndex == IndexSafe(in, p).index + change
         IN  IF newIndex < 0 \/ newIndex >= Size(in)
             THEN [p |-> p, cont |-> FALSE, err |-> Nil]
             ELSE [p |-> copy(p, Point(in, newIndex).p), cont |-> TRUE, err |-> Nil]

IncreaseBySafe(in, p, change) ==
    IF change = 0 THEN [p |-> p, cont |-> TRUE, err |-> Nil]
    ELSE IF change = 1 THEN IncrementSafe(in, p)
    ELSE IF change = -1 THEN DecrementSafe(in, p)
    ELSE IF IndexSafe(in, p).err # Nil
    THEN [p |-> p, cont |-> FALSE, err |-> IndexSafe(in, p).err]
    ELSE IF TooBig(in, change) THEN [p |-> p, cont |-> FALSE, err |-> ErrChangeTooBig]
    ELSE LET newIndex == IndexSafe(in, p).index + change
         IN  IF newIndex < 0 \/ newIndex >= Size(in)
             THEN [p |-> p, cont |-> FALSE, err |-> Nil]
             ELSE [p |-> copy(p, Point(in, newIndex).p), cont |-> TRUE, err |-> Nil]

(* ------------------------------ inputs -------------------------------- *)

\* the dimension vectors NewInterpreterSafe accepts, within the bounds
Shapes ==
    { dims \in UNION { [1..n -> 1..MaxSize] : n \in 1..MaxRank } :
          /\ NewInterpreterSafe(dims).err = Nil
          /\ Size(NewInterpreterSafe(dims).in) <= MaxSize }

\* the size a dims argument would have with its entries below 1 taken as 1
Bulk(dims) ==
    IF Len(dims) = 0 THEN 1
    ELSE SizesOf([i \in 1..Len(dims) |-> IF dims[i] < 1 THEN 1 ELSE dims[i]])[Len(dims)]

\* the dims arguments of NewInterpreterSafe: empty, with entries below 1, valid
DimsArgs ==
    { dims \in UNION { [1..n -> (-1)..MaxInterpSize] : n \in 0..MaxInterpRank } :
          Bulk(dims) <= MaxInterpSize }

\* the point arguments for an Interpreter of the given dims: empty, of a
\* wrong length, with coordinates from -1 to Dims[i] on every axis
PointArgs(dims) ==
    IF NewInterpreterSafe(dims).err # Nil THEN {<<>>}
    ELSE {<<>>}
         \cup {[i \in 1..(Len(dims) - 1) |-> 0], [i \in 1..(Len(dims) + 1) |-> 0]}
         \cup {[i \in 1..(Len(dims) + 1) |-> -1]}
         \cup { p \in [1..Len(dims) -> (-1)..MaxInterpSize] :
                    \A i \in 1..Len(dims) : p[i] <= dims[i] }

\* the three entry points of the traversal
Entries == {"MapApply", "MapApplySafe", "MapApplyFast"}

\* the caller's fn argument: nil, or a function
FnArgs == {"nil", "func"}

\* the caller's options argument: nil, or a pointer to a ThreadingOptions
\* whose fields may be below 1 (zero, or both negative)
OptionArgs ==
    {[isNil |-> TRUE, OpsPerThread |-> 0, NumThreads |-> 0]} \cup
    {[isNil |-> FALSE, OpsPerThread |-> -1, NumThreads |-> -1]} \cup
    [isNil : {FALSE}, OpsPerThread : 0..MaxOps, NumThreads : 0..MaxThreads]

\* goroutine identities: the value of `thread` at the go statement, plus one
Threads == 1..MaxThreads

(* ------------------------------- state -------------------------------- *)

VARIABLES
    in,          \* the receiver Interpreter
    entry,       \* which of MapApply / MapApplySafe / MapApplyFast was called
    fn,          \* the caller's fn argument
    optionsArg,  \* the caller's options argument, as passed
    options,     \* the local options pointer and the ThreadingOptions it refers to
    mainPC,      \* position of the calling goroutine
    result,      \* the error MapApplySafe returned
    panicValue,  \* the value the program panicked with, Nil if it did not
    thread,      \* loop variable of the spawning loop
    index,       \* shared cursor
    point,       \* shared running point
    err,         \* shared sticky error
    mux,         \* 0 when unlocked, else the goroutine holding it
    wg,          \* counter of the WaitGroup
    w,           \* per goroutine: pc, localErr, localIndex, localPoint, localEnd
    visits,      \* history: how often the visitor was invoked with each index
    fnErrs,      \* history: the non-nil errors the visitor returned
    claims,      \* history: the batches claimed, as <<localIndex, index after the claim>>
    dims,        \* the dims argument of NewInterpreterSafe
    buf,         \* a caller's point buffer, changed in place by the stepping methods
    op,          \* the Interpreter method called last on buf, "none" before any
    arg,         \* its integer argument (index or change), 0 if it has none
    before,      \* buf as it was when that method was called
    ret,         \* what it returned: the bool, the int, the point and the error
    incs,        \* history: Increments applied in a row to the all-zero point, -1 if untracked
    first        \* history: the call before an undoing Decrement or Increment, NoFirst if none

\* the state of a direct use of the Interpreter's methods
interpVars == <<dims, buf, op, arg, before, ret, incs, first>>

vars == <<in, entry, fn, optionsArg, options, mainPC, result, panicValue, thread, index, point,
          err, mux, wg, w, visits, fnErrs, claims, interpVars>>

\* the panic value of a call through a nil func
NilDereference == [kind |-> "runtime error: invalid memory address or nil pointer dereference",
                   args |-> <<>>]

\* the function generalMapApply receives: MapApplySafe passes the caller's
\* fn on, MapApply and MapApplyFast wrap it in a closure, which is never nil
newFn == IF entry = "MapApplySafe" THEN fn ELSE "func"

useFast == entry = "MapApplyFast"

increment(p) ==
    IF useFast
    THEN [p |-> IncrementFast(in, p).p, cont |-> IncrementFast(in, p).cont, err |-> Nil]
    ELSE IncrementSafe(in, p)

makePoint(i) ==
    IF useFast
    THEN [p |-> Point(in, i).p, err |-> Nil, panic |-> Point(in, i).panic]
    ELSE [p |-> PointSafe(in, i).p, err |-> PointSafe(in, i).err, panic |-> Nil]

\* zero values of a goroutine's locals, before the go statement runs it
NotStarted ==
    [pc |-> "notStarted", localErr |-> Nil, localIndex |-> 0, localPoint |-> <<>>, localEnd |-> 0]

\* zero values of what a method returns
NoReturn == [b |-> FALSE, n |-> 0, p |-> <<>>, err |-> Nil]

\* no call went before the last one
NoFirst == [op |-> "none", p |-> <<>>, b |-> FALSE]

Init ==
    /\ dims \in Shapes
    /\ in = NewInterpreterSafe(dims).in
    /\ buf = <<>>
    /\ op = "none"
    /\ arg = 0
    /\ before = <<>>
    /\ ret = NoReturn
    /\ incs = -1
    /\ first = NoFirst
    /\ entry \in Entries
    /\ fn \in FnArgs
    /\ optionsArg \in OptionArgs
    /\ options = optionsArg
    /\ mainPC = "call"
    /\ result = Nil
    /\ panicValue = Nil
    /\ thread = 0
    /\ index = 0
    /\ point = <<>>
    /\ err = Nil
    /\ mux = 0
    /\ wg = 0
    /\ w = [t \in Threads |-> NotStarted]
    /\ visits = [i \in 0..(Size(in) - 1) |-> 0]
    /\ fnErrs = {}
    /\ claims = <<>>

(* ---------------------------- the caller ------------------------------ *)

\* an unrecovered panic in a goroutine ends the program
Crashed == \E t \in Threads : w[t].pc = "panicked"

\* the end of the call once generalMapApply has returned r: MapApplySafe
\* returns r, MapApply and MapApplyFast panic with r unless it is nil
Return(r) ==
    IF entry = "MapApplySafe" \/ r = Nil
    THEN /\ mainPC' = "returned"
         /\ result' = r
         /\ panicValue' = panicValue
    ELSE /\ mainPC' = "panicked"
         /\ result' = result
         /\ panicValue' = r

\* mutant of FillOptions: nil options filled in as {1, 1}
FillOptionsOnes(o) ==
    IF o.isNil
    THEN [isNil |-> FALSE, OpsPerThread |-> 1, NumThreads |-> 1]
    ELSE [isNil |-> FALSE,
          OpsPerThread |-> IF o.OpsPerThread < 1 THEN 1 ELSE o.OpsPerThread,
          NumThreads |-> IF o.NumThreads < 1 THEN 1 ELSE o.NumThreads]

\* mutant of FillOptions: NumThreads below 1 is left as it is
FillOptionsRaw(o) ==
    IF o.isNil
    THEN [isNil |-> FALSE, OpsPerThread |-> Size(in), NumThreads |-> 1]
    ELSE [isNil |-> FALSE,
          OpsPerThread |-> IF o.OpsPerThread < 1 THEN 1 ELSE o.OpsPerThread,
          NumThreads |-> o.NumThreads]

\* options as generalMapApply uses them: a fresh {1, in.Size()} for nil,
\* otherwise the caller's struct with fields below 1 set to 1
FillOptions(o) ==
    IF o.isNil
    THEN [isNil |-> FALSE, OpsPerThread |-> Size(in), NumThreads |-> 1]
    ELSE [isNil |-> FALSE,
          OpsPerThread |-> IF o.OpsPerThread < 1 THEN 1 ELSE o.OpsPerThread,
          NumThreads |-> IF o.NumThreads < 1 THEN 1 ELSE o.NumThreads]

\* mutant of NilCheck: the check is missing
NilCheckMissing == FALSE

\* if !useFast && fn == nil
NilCheck == ~useFast /\ newFn = "nil"

\* the entry point up to wg.Add: the nil check, the options, the shared locals
Call ==
    /\ mainPC = "call"
    /\ IF NilCheck
       THEN /\ Return(ErrNilFunction)
            /\ UNCHANGED <<options, thread, index, point, err, wg>>
       ELSE /\ options' = FillOptions(options)
            /\ index' = 0
            /\ point' = [i \in 1..Len(in.Dims) |-> 0]
            /\ err' = Nil
            /\ wg' = options'.NumThreads
            /\ thread' = 0
            /\ mainPC' = IF 0 < options'.NumThreads THEN "spawn" ELSE "wait"
            /\ UNCHANGED <<result, panicValue>>
    /\ UNCHANGED interpVars
    /\ UNCHANGED <<in, entry, fn, optionsArg, mux, w, visits, fnErrs, claims>>

\* one iteration of the spawning loop: the go statement and thread++
Spawn ==
    /\ mainPC = "spawn"
    /\ ~Crashed
    /\ thread < options.NumThreads
    /\ w' = [w EXCEPT ![thread + 1].pc = "top"]
    /\ thread' = thread + 1
    /\ mainPC' = IF thread + 1 < options.NumThreads THEN "spawn" ELSE "wait"
    /\ UNCHANGED interpVars
    /\ UNCHANGED <<in, entry, fn, optionsArg, options, result, panicValue, index, point,
                   err, mux, wg, visits, fnErrs, claims>>

\* mutant of Wait: err is returned without waiting for the goroutines
WaitNoJoin ==
    /\ mainPC = "wait"
    /\ ~Crashed
    /\ Return(err)
    /\ UNCHANGED interpVars
    /\ UNCHANGED <<in, entry, fn, optionsArg, options, thread, index, point, err, mux, wg,
                   w, visits, fnErrs, claims>>

\* wg.Wait() and the return of err
Wait ==
    /\ mainPC = "wait"
    /\ ~Crashed
    /\ wg = 0
    /\ Return(err)
    /\ UNCHANGED interpVars
    /\ UNCHANGED <<in, entry, fn, optionsArg, options, thread, index, point, err, mux, wg,
                   w, visits, fnErrs, claims>>

(* --------------------------- the goroutines --------------------------- *)

\* mux.Lock()
Lock(t) ==
    /\ ~Crashed
    /\ w[t].pc = "top"
    /\ mux = 0
    /\ mux' = t
    /\ w' = [w EXCEPT ![t].pc = "locked"]
    /\ UNCHANGED interpVars
    /\ UNCHANGED <<in, entry, fn, optionsArg, options, mainPC, result, panicValue, thread,
                   index, point, err, wg, visits, fnErrs, claims>>

\* mutant of Refresh: the shared point is always stepped by one increment
RefreshIncrement(newIndex) ==
    [point |-> increment(point).p,
     err   |-> IF increment(point).err # Nil THEN increment(point).err
               ELSE IF ~increment(point).cont THEN ErrPointOutOfSync
               ELSE Nil,
     panic |-> Nil]

\* the refresh of the shared point for the next claim, given the advanced
\* cursor: a fresh decode when OpsPerThread > 1, else one increment in place
Refresh(newIndex) ==
    IF options.OpsPerThread > 1
    THEN [point |-> makePoint(newIndex).p,
          err   |-> makePoint(newIndex).err,
          panic |-> makePoint(newIndex).panic]
    ELSE [point |-> increment(point).p,
          err   |-> IF increment(point).err # Nil THEN increment(point).err
                    ELSE IF ~increment(point).cont THEN ErrPointOutOfSync
                    ELSE Nil,
          panic |-> Nil]

\* mutant of Stopped: the sticky error is not looked at
StoppedNever == FALSE

\* if err != nil: another goroutine has recorded an error
Stopped == err # Nil

\* mutant of Exhausted: off by one, index >= in.Size() - 1
ExhaustedEarly == index >= Size(in) - 1

\* if index >= in.Size(): there are no more args to use
Exhausted == index >= Size(in)

\* mutant of Advance: the cursor moves by one whatever OpsPerThread is
AdvanceOne(i) == i + 1

\* index += options.OpsPerThread
Advance(i) == i + options.OpsPerThread

\* mutant of Section: localErr is published before the sticky error is looked at
SectionLocalFirst(t) ==
    IF w[t].localErr # Nil
    THEN [exit |-> TRUE, claim |-> FALSE, err |-> w[t].localErr, index |-> index,
          point |-> point, panic |-> Nil]
    ELSE IF Stopped
    THEN [exit |-> TRUE, claim |-> FALSE, err |-> err, index |-> index, point |-> point,
          panic |-> Nil]
    ELSE IF Exhausted
    THEN [exit |-> TRUE, claim |-> FALSE, err |-> err, index |-> index, point |-> point,
          panic |-> Nil]
    ELSE IF Advance(index) < Size(in)
    THEN [exit  |-> Refresh(Advance(index)).err # Nil,
          claim |-> TRUE,
          err   |-> Refresh(Advance(index)).err,
          index |-> Advance(index),
          point |-> Refresh(Advance(index)).point,
          panic |-> Refresh(Advance(index)).panic]
    ELSE [exit |-> FALSE, claim |-> TRUE, err |-> err,
          index |-> Advance(index), point |-> point, panic |-> Nil]

\* what the holder of the lock does before it unlocks
Section(t) ==
    IF Stopped
    THEN [exit |-> TRUE, claim |-> FALSE, err |-> err, index |-> index, point |-> point,
          panic |-> Nil]
    ELSE IF w[t].localErr # Nil
    THEN [exit |-> TRUE, claim |-> FALSE, err |-> w[t].localErr, index |-> index,
          point |-> point, panic |-> Nil]
    ELSE IF Exhausted
    THEN [exit |-> TRUE, claim |-> FALSE, err |-> err, index |-> index, point |-> point,
          panic |-> Nil]
    ELSE IF Advance(index) < Size(in)
    THEN [exit  |-> Refresh(Advance(index)).err # Nil,
          claim |-> TRUE,
          err   |-> Refresh(Advance(index)).err,
          index |-> Advance(index),
          point |-> Refresh(Advance(index)).point,
          panic |-> Refresh(Advance(index)).panic]
    ELSE [exit |-> FALSE, claim |-> TRUE, err |-> err,
          index |-> Advance(index), point |-> point, panic |-> Nil]

\* localEnd after the clamp to in.Size()
ClampEnd(end) == IF end > Size(in) THEN Size(in) ELSE end

\* mutant of Claim: a batch is claimed and run without mux.Unlock()
ClaimKeepLock(t) ==
    /\ ~Crashed
    /\ w[t].pc = "locked"
    /\ mux = t
    /\ LET s == Section(t)
       IN  /\ err' = s.err
           /\ index' = s.index
           /\ point' = s.point
           /\ IF s.panic # Nil
              THEN /\ w' = [w EXCEPT ![t].pc = "panicked"]
                   /\ panicValue' = s.panic
                   /\ mux' = mux
                   /\ claims' = claims
              ELSE /\ w' = [w EXCEPT ![t] =
                             IF s.claim
                             THEN [@ EXCEPT !.localIndex = index,
                                            !.localPoint = point,
                                            !.localEnd = IF s.exit THEN s.index
                                                         ELSE ClampEnd(s.index),
                                            !.pc = IF s.exit THEN "exiting"
                                                   ELSE IF index < ClampEnd(s.index)
                                                   THEN "call" ELSE "top"]
                             ELSE [@ EXCEPT !.pc = "exiting"]]
                   /\ panicValue' = panicValue
                   /\ mux' = mux
                   /\ claims' = IF s.claim THEN Append(claims, <<index, s.index>>) ELSE claims
    /\ UNCHANGED interpVars
    /\ UNCHANGED <<in, entry, fn, optionsArg, options, mainPC, result, thread, wg, visits,
                   fnErrs>>

\* the critical section from after mux.Lock() to mux.Unlock(): leave on a
\* recorded error, publish localErr, leave on an exhausted cursor, or claim
\* the next batch and refresh the shared point; then, for a claimed batch,
\* the clamp of localEnd and the first test of the batch loop
Claim(t) ==
    /\ ~Crashed
    /\ w[t].pc = "locked"
    /\ mux = t
    /\ LET s == Section(t)
       IN  /\ err' = s.err
           /\ index' = s.index
           /\ point' = s.point
           /\ IF s.panic # Nil
              THEN /\ w' = [w EXCEPT ![t].pc = "panicked"]
                   /\ panicValue' = s.panic
                   /\ mux' = mux
                   /\ claims' = claims
              ELSE /\ w' = [w EXCEPT ![t] =
                             IF s.claim
                             THEN [@ EXCEPT !.localIndex = index,
                                            !.localPoint = point,
                                            !.localEnd = IF s.exit THEN s.index
                                                         ELSE ClampEnd(s.index),
                                            !.pc = IF s.exit THEN "exiting"
                                                   ELSE IF index < ClampEnd(s.index)
                                                   THEN "call" ELSE "top"]
                             ELSE [@ EXCEPT !.pc = "exiting"]]
                   /\ panicValue' = panicValue
                   /\ mux' = 0
                   /\ claims' = IF s.claim THEN Append(claims, <<index, s.index>>) ELSE claims
    /\ UNCHANGED interpVars
    /\ UNCHANGED <<in, entry, fn, optionsArg, options, mainPC, result, thread, wg, visits,
                   fnErrs>>

\* fn(localPoint, localIndex) is entered; through the closure of MapApply
\* and MapApplyFast a nil fn is called, and the goroutine panics
CallFn(t) ==
    /\ ~Crashed
    /\ w[t].pc = "call"
    /\ IF fn = "nil"
       THEN /\ w' = [w EXCEPT ![t].pc = "panicked"]
            /\ panicValue' = NilDereference
            /\ UNCHANGED visits
       ELSE /\ w' = [w EXCEPT ![t].pc = "infn"]
            /\ visits' = [visits EXCEPT ![w[t].localIndex] = @ + 1]
            /\ panicValue' = panicValue
    /\ UNCHANGED interpVars
    /\ UNCHANGED <<in, entry, fn, optionsArg, options, mainPC, result, thread, index, point,
                   err, mux, wg, fnErrs, claims>>

\* what a visitor can return for an index: only MapApplySafe's fn returns error
FnResults(i) == IF entry = "MapApplySafe" THEN {Nil, VisitorError(i)} ELSE {Nil}

\* mutant of Remember: the visitor's error is dropped
RememberNothing(localErr, r) == localErr

\* if err := fn(localPoint, localIndex); err != nil { localErr = err }
Remember(localErr, r) == IF r # Nil THEN r ELSE localErr

\* mutant of AfterFn: a failure of the visitor breaks out of the batch loop
AfterFnBreak(me, r) ==
    LET afterCall == [me EXCEPT !.localErr = IF r # Nil THEN r ELSE @,
                                !.localIndex = @ + 1]
        inc == increment(me.localPoint)
    IN  IF afterCall.localIndex = afterCall.localEnd \/ r # Nil
        THEN [afterCall EXCEPT !.pc = "top"]
        ELSE IF inc.err # Nil
        THEN [afterCall EXCEPT !.localPoint = inc.p, !.localErr = inc.err, !.pc = "top"]
        ELSE IF ~inc.cont
        THEN [afterCall EXCEPT !.localPoint = inc.p, !.localErr = ErrPointOutOfSync,
                               !.pc = "top"]
        ELSE [afterCall EXCEPT !.localPoint = inc.p,
                               !.pc = IF afterCall.localIndex < afterCall.localEnd
                                      THEN "call" ELSE "top"]

\* mutant of AfterFn: the local point is not stepped between two invocations
AfterFnNoIncrement(me, r) ==
    LET afterCall == [me EXCEPT !.localErr = IF r # Nil THEN r ELSE @,
                                !.localIndex = @ + 1]
    IN  [afterCall EXCEPT !.pc = IF afterCall.localIndex < afterCall.localEnd
                                 THEN "call" ELSE "top"]

\* the rest of one iteration of the batch loop after fn returned r
AfterFn(me, r) ==
    LET afterCall == [me EXCEPT !.localErr = Remember(@, r),
                                !.localIndex = @ + 1]
        inc == increment(me.localPoint)
    IN  IF afterCall.localIndex = afterCall.localEnd
        THEN [afterCall EXCEPT !.pc = "top"]
        ELSE IF inc.err # Nil
        THEN [afterCall EXCEPT !.localPoint = inc.p, !.localErr = inc.err, !.pc = "top"]
        ELSE IF ~inc.cont
        THEN [afterCall EXCEPT !.localPoint = inc.p, !.localErr = ErrPointOutOfSync,
                               !.pc = "top"]
        ELSE [afterCall EXCEPT !.localPoint = inc.p,
                               !.pc = IF afterCall.localIndex < afterCall.localEnd
                                      THEN "call" ELSE "top"]

\* fn returns, and the iteration of the batch loop completes
FnReturn(t) ==
    /\ ~Crashed
    /\ w[t].pc = "infn"
    /\ \E r \in FnResults(w[t].localIndex) :
           /\ w' = [w EXCEPT ![t] = AfterFn(w[t], r)]
           /\ fnErrs' = IF r # Nil THEN fnErrs \cup {r} ELSE fnErrs
    /\ UNCHANGED interpVars
    /\ UNCHANGED <<in, entry, fn, optionsArg, options, mainPC, result, panicValue, thread,
                   index, point, err, mux, wg, visits, claims>>

\* mutant of Done: the goroutine returns without wg.Done()
DoneForgotten(t) ==
    /\ ~Crashed
    /\ w[t].pc = "exiting"
    /\ wg' = wg
    /\ w' = [w EXCEPT ![t].pc = "done"]
    /\ UNCHANGED interpVars
    /\ UNCHANGED <<in, entry, fn, optionsArg, options, mainPC, result, panicValue, thread,
                   index, point, err, mux, visits, fnErrs, claims>>

\* the deferred wg.Done() of a goroutine that returned
Done(t) ==
    /\ ~Crashed
    /\ w[t].pc = "exiting"
    /\ wg' = wg - 1
    /\ w' = [w EXCEPT ![t].pc = "done"]
    /\ UNCHANGED interpVars
    /\ UNCHANGED <<in, entry, fn, optionsArg, options, mainPC, result, panicValue, thread,
                   index, point, err, mux, visits, fnErrs, claims>>

Next ==
    \/ Call
    \/ Spawn
    \/ Wait
    \/ \E t \in Threads : Lock(t)
    \/ \E t \in Threads : Claim(t)
    \/ \E t \in Threads : CallFn(t)
    \/ \E t \in Threads : FnReturn(t)
    \/ \E t \in Threads : Done(t)

Spec == Init /\ [][Next]_vars

\* the calls explored under fairness
LiveInit == Init /\ Size(in) <= MaxLiveSize

\* the Go scheduler runs every runnable goroutine, a free mutex is handed to
\* a goroutine blocked in Lock, and every call of the visitor returns
FairSpec ==
    /\ LiveInit
    /\ [][Next]_vars
    /\ WF_vars(Call)
    /\ WF_vars(Spawn)
    /\ WF_vars(Wait)
    /\ \A t \in Threads :
           WF_vars(Lock(t) \/ Claim(t) \/ CallFn(t) \/ FnReturn(t) \/ Done(t))

(* ----------------- direct calls of the Interpreter's methods ---------- *)

\* no traversal is running
NoTraversal ==
    /\ entry = "none"
    /\ fn = "nil"
    /\ optionsArg = [isNil |-> TRUE, OpsPerThread |-> 0, NumThreads |-> 0]
    /\ options = optionsArg
    /\ mainPC = "idle"
    /\ result = Nil
    /\ panicValue = Nil
    /\ thread = 0
    /\ index = 0
    /\ point = <<>>
    /\ err = Nil
    /\ mux = 0
    /\ wg = 0
    /\ w = [t \in Threads |-> NotStarted]
    /\ visits = <<>>
    /\ fnErrs = {}
    /\ claims = <<>>

traversalVars == <<entry, fn, optionsArg, options, mainPC, result, panicValue, thread, index,
                   point, err, mux, wg, w, visits, fnErrs, claims>>

\* a caller holding a dims argument and a point buffer, before NewInterpreterSafe
InterpInit ==
    /\ dims \in DimsArgs
    /\ buf \in PointArgs(dims)
    /\ in = [Dims |-> <<>>, Sizes |-> <<>>]
    /\ op = "none"
    /\ arg = 0
    /\ before = <<>>
    /\ ret = NoReturn
    /\ incs = -1
    /\ first = NoFirst
    /\ NoTraversal

\* NewInterpreterSafe(dims)
CallNewInterpreterSafe ==
    /\ op = "none"
    /\ in' = NewInterpreterSafe(dims).in
    /\ ret' = [NoReturn EXCEPT !.err = NewInterpreterSafe(dims).err]
    /\ op' = "NewInterpreterSafe"
    /\ before' = buf
    /\ UNCHANGED <<dims, buf, arg, incs, first>>
    /\ UNCHANGED traversalVars

\* the Interpreter has been constructed and no method called on it yet
Constructed == op = "NewInterpreterSafe" /\ ret.err = Nil

\* in.Size()
CallSize ==
    /\ Constructed
    /\ op' = "Size"
    /\ ret' = [NoReturn EXCEPT !.n = Size(in)]
    /\ before' = buf
    /\ UNCHANGED <<in, dims, buf, arg, incs, first>>
    /\ UNCHANGED traversalVars

\* in.CheckPoint(buf)
CallCheckPoint ==
    /\ Constructed
    /\ op' = "CheckPoint"
    /\ ret' = [NoReturn EXCEPT !.err = CheckPoint(in, buf)]
    /\ before' = buf
    /\ UNCHANGED <<in, dims, buf, arg, incs, first>>
    /\ UNCHANGED traversalVars

\* in.IndexSafe(buf)
CallIndexSafe ==
    /\ Constructed
    /\ op' = "IndexSafe"
    /\ ret' = [NoReturn EXCEPT !.n = IndexSafe(in, buf).index, !.err = IndexSafe(in, buf).err]
    /\ before' = buf
    /\ UNCHANGED <<in, dims, buf, arg, incs, first>>
    /\ UNCHANGED traversalVars

\* in.PointSafe(i), for an index from -1 to Size()
CallPointSafe ==
    /\ Constructed
    /\ \E i \in (-1)..Size(in) :
           /\ arg' = i
           /\ ret' = [NoReturn EXCEPT !.p = PointSafe(in, i).p, !.err = PointSafe(in, i).err]
    /\ op' = "PointSafe"
    /\ before' = buf
    /\ UNCHANGED <<in, dims, buf, incs, first>>
    /\ UNCHANGED traversalVars

\* the last call was the given method, it returned no error, and its
\* effect has not been undone yet: the caller goes on to call the opposite method
Undoing(method) == op = method /\ ret.err = Nil /\ first = NoFirst

\* the all-zero point of the Interpreter
ZeroPoint == [i \in 1..Len(in.Dims) |-> 0]

\* in.IncrementSafe(buf): on a fresh buffer, or once more in a run of
\* Increments that began at the all-zero point and is not yet Size() long
CallIncrementSafe ==
    /\ \/ Constructed
       \/ op = "IncrementSafe" /\ incs >= 1 /\ incs < Size(in) /\ first = NoFirst
       \/ Undoing("DecrementSafe")
    /\ op' = "IncrementSafe"
    /\ buf' = IncrementSafe(in, buf).p
    /\ ret' = [NoReturn EXCEPT !.b = IncrementSafe(in, buf).cont,
                               !.err = IncrementSafe(in, buf).err]
    /\ before' = buf
    /\ incs' = IF op = "IncrementSafe" THEN incs + 1
               ELSE IF Constructed /\ buf = ZeroPoint THEN 1 ELSE -1
    /\ first' = IF Undoing("DecrementSafe") THEN [op |-> op, p |-> before, b |-> ret.b]
                ELSE first
    /\ UNCHANGED <<in, dims, arg>>
    /\ UNCHANGED traversalVars

\* in.DecrementSafe(buf)
CallDecrementSafe ==
    /\ Constructed \/ Undoing("IncrementSafe")
    /\ op' = "DecrementSafe"
    /\ buf' = DecrementSafe(in, buf).p
    /\ ret' = [NoReturn EXCEPT !.b = DecrementSafe(in, buf).cont,
                               !.err = DecrementSafe(in, buf).err]
    /\ before' = buf
    /\ incs' = -1
    /\ first' = IF Undoing("IncrementSafe") THEN [op |-> op, p |-> before, b |-> ret.b]
                ELSE first
    /\ UNCHANGED <<in, dims, arg>>
    /\ UNCHANGED traversalVars

\* in.IncreaseBySafe(buf, change), for a change from -(Size()+1) to Size()+1
CallIncreaseBySafe ==
    /\ Constructed
    /\ \E change \in (-(Size(in) + 1))..(Size(in) + 1) :
           /\ arg' = change
           /\ buf' = IncreaseBySafe(in, buf, change).p
           /\ ret' = [NoReturn EXCEPT !.b = IncreaseBySafe(in, buf, change).cont,
                                      !.err = IncreaseBySafe(in, buf, change).err]
    /\ op' = "IncreaseBySafe"
    /\ before' = buf
    /\ UNCHANGED <<in, dims, incs, first>>
    /\ UNCHANGED traversalVars

InterpNext ==
    \/ CallNewInterpreterSafe
    \/ CallSize
    \/ CallCheckPoint
    \/ CallIndexSafe
    \/ CallPointSafe
    \/ CallIncrementSafe
    \/ CallDecrementSafe
    \/ CallIncreaseBySafe

InterpSpec == InterpInit /\ [][InterpNext]_vars

(* ------------------------- notions of the claims ---------------------- *)

\* the indices of the space, [0, Size)
Indices == 0..(Size(in) - 1)

\* the call has ended: generalMapApply returned, and the entry point
\* returned or panicked with the error
Ended == mainPC \in {"returned", "panicked"}

\* the call is rejected for its nil fn by generalMapApply
SafeNil == entry = "MapApplySafe" /\ fn = "nil"

\* the closure of MapApply or MapApplyFast wraps a nil fn
WrappedNil == entry # "MapApplySafe" /\ fn = "nil"

\* the goroutines the go statement has started
Started == {t \in Threads : w[t].pc # "notStarted"}

\* the field value as the documentation says it is used: below 1 counts as 1
AtLeastOne(n) == IF n < 1 THEN 1 ELSE n

\* the number of goroutines the documentation promises for the arguments
PromisedThreads == IF optionsArg.isNil THEN 1 ELSE AtLeastOne(optionsArg.NumThreads)

\* the batch size the documentation promises for the arguments
PromisedOps == IF optionsArg.isNil THEN Size(in) ELSE AtLeastOne(optionsArg.OpsPerThread)

\* an internal fault (ErrPointOutOfSync or a validation error) was recorded
FaultRecorded ==
    \/ err # Nil /\ err.kind # "VisitorError"
    \/ \E t \in Threads : w[t].localErr # Nil /\ w[t].localErr.kind # "VisitorError"

\* every index has been given to the visitor exactly once
AllVisitedOnce == \A i \in Indices : visits[i] = 1

(* -------------------------------- C1 ---------------------------------- *)

\* C1: with a visitor that never fails, a traversal by any of the three
\* entry points invokes the visitor exactly once for each index of [0, Size),
\* never twice for an index at any moment, and ends without error, whatever
\* the shape, the options and the interleaving.
C1_ExactlyOnce ==
    /\ \A i \in Indices : visits[i] <= 1
    /\ (Ended /\ fn # "nil" /\ fnErrs = {}) =>
           /\ AllVisitedOnce
           /\ mainPC = "returned"
           /\ result = Nil
           /\ panicValue = Nil

C1_Witness ==
    /\ mainPC = "returned"
    /\ entry = "MapApplySafe"
    /\ fn = "func"
    /\ fnErrs = {}
    /\ options.NumThreads = 2
    /\ options.OpsPerThread = 1
    /\ Size(in) = 4
    /\ Len(in.Dims) = 2
    /\ AllVisitedOnce
    /\ \A t \in 1..2 : w[t].localEnd > 0

(* -------------------------------- C2 ---------------------------------- *)

\* C2: MapApplySafe with a nil fn returns ErrNilFunction at once: no
\* goroutine is started, the cursor stays 0, no batch is claimed and the
\* visitor is never invoked, for every shape and options (nil included).
C2_NilVisitorSafe ==
    (SafeNil /\ mainPC # "call") =>
        /\ mainPC = "returned"
        /\ result = ErrNilFunction
        /\ panicValue = Nil
        /\ thread = 0
        /\ Started = {}
        /\ wg = 0
        /\ mux = 0
        /\ index = 0
        /\ claims = <<>>
        /\ \A i \in Indices : visits[i] = 0

C2_Witness ==
    /\ SafeNil
    /\ optionsArg.isNil
    /\ mainPC = "returned"
    /\ result = ErrNilFunction

(* -------------------------------- C3 ---------------------------------- *)

\* C3: MapApply and MapApplyFast with a nil fn panic with ErrNilFunction
\* before any goroutine is started and before any call through fn.
C3_NilVisitorPanics ==
    (WrappedNil /\ mainPC # "call") =>
        /\ mainPC = "panicked"
        /\ panicValue = ErrNilFunction
        /\ thread = 0
        /\ Started = {}
        /\ claims = <<>>

(* -------------------------------- C4 ---------------------------------- *)

\* C4 as stated: MapApplySafe returns a non-nil error if and only if some
\* invocation of the visitor failed (or a fault was recorded), and an error
\* that comes from the visitor is one of the values it returned.
C4_ErrorIffVisitorFailed ==
    (entry = "MapApplySafe" /\ mainPC = "returned") =>
        /\ (result # Nil) <=> (fnErrs # {} \/ FaultRecorded)
        /\ (result # Nil /\ ~FaultRecorded) => result \in fnErrs

\* C4 amended: given a non-nil fn, MapApplySafe returns a non-nil error if
\* and only if some invocation of the visitor failed (or a fault was
\* recorded), and an error that comes from the visitor is one of the values
\* it returned, unchanged.
C4_ErrorIffVisitorFailedGivenFn ==
    (entry = "MapApplySafe" /\ fn # "nil" /\ mainPC = "returned") =>
        /\ (result # Nil) <=> (fnErrs # {} \/ FaultRecorded)
        /\ (result # Nil /\ ~FaultRecorded) => result \in fnErrs

C4_Witness ==
    /\ entry = "MapApplySafe"
    /\ mainPC = "returned"
    /\ result.kind = "VisitorError"
    /\ Cardinality(fnErrs) >= 2
    /\ options.NumThreads = 2

(* -------------------------------- C5 ---------------------------------- *)

\* C5: once the sticky error is set, the cursor never advances and no batch
\* is claimed, and a goroutine that holds the lock leaves the critical
\* section only to terminate.
C5_SoftStop ==
    [][err # Nil =>
           /\ index' = index
           /\ claims' = claims
           /\ \A t \in Threads :
                  (w[t].pc = "locked" /\ w'[t].pc # "locked") => w'[t].pc = "exiting"]_vars

C5_Witness ==
    /\ err # Nil
    /\ index < Size(in)
    /\ \E t \in Threads :
           /\ w[t].pc = "exiting"
           /\ w[t].localErr = Nil
           /\ w[t].localEnd > 0

(* -------------------------------- C6 ---------------------------------- *)

\* C6: every claimed batch is run to its end, also after an error: when the
\* call has ended without a fault, every index of every claimed batch has
\* been visited exactly once, so the visited indices are exactly
\* [0, min(cursor, Size)), and no index is ever visited twice.
C6_ClaimedBatchesCompleted ==
    /\ \A i \in Indices : visits[i] <= 1
    /\ (Ended /\ ~FaultRecorded) =>
           /\ \A k \in 1..Len(claims) :
                  \A i \in Indices :
                      (claims[k][1] <= i /\ i < claims[k][2]) => visits[i] = 1
           /\ \A i \in Indices : visits[i] = IF i < index THEN 1 ELSE 0

C6_Witness ==
    /\ mainPC = "returned"
    /\ options.NumThreads = 2
    /\ index < Size(in)
    /\ \E e \in fnErrs :
           /\ e.args[1] + 1 \in Indices
           /\ visits[e.args[1] + 1] = 1
           /\ \E k \in 1..Len(claims) : claims[k][1] <= e.args[1] /\ e.args[1] + 1 < claims[k][2]

(* -------------------------------- C7 ---------------------------------- *)

\* C7: unless a nil fn is called through the closure of MapApply or
\* MapApplyFast (a visitor call that does not return), every call
\* eventually returns with every started goroutine terminated, whether or
\* not the visitor fails.
C7_Terminates ==
    (mainPC = "call" /\ ~WrappedNil)
        ~> (mainPC = "returned" /\ \A t \in Started : w[t].pc = "done")

C7_Witness ==
    /\ mainPC = "returned"
    /\ fnErrs # {}
    /\ Cardinality(Started) = 2
    /\ \A t \in Started : w[t].pc = "done"
    /\ Len(claims) >= 2

(* -------------------------------- C8 ---------------------------------- *)

\* C8: exactly the promised number of goroutines is started, all of them by
\* the time the caller waits and none later, and when the call has ended
\* no goroutine is running, holds the lock or is inside the visitor.
C8_JoinBeforeReturn ==
    /\ Ended =>
           /\ \A t \in Threads : w[t].pc \in {"notStarted", "done"}
           /\ mux = 0
           /\ wg = 0
    /\ (mainPC # "call" /\ ~SafeNil) =>
           /\ Cardinality(Started) = thread
           /\ thread <= PromisedThreads
           /\ (mainPC # "spawn") => thread = PromisedThreads

C8_Witness ==
    /\ mainPC = "returned"
    /\ thread = 2
    /\ \A t \in 1..2 : w[t].pc = "done" /\ w[t].localEnd > 0
    /\ entry = "MapApply"

(* -------------------------------- C9 ---------------------------------- *)

\* C9: with nil options at most one goroutine is started and at most one
\* batch is claimed, the batch [0, Size); the k-th invocation of the
\* visitor (k = 0, 1, ...) receives the index k; and a call that returns
\* has started one goroutine, claimed one batch and visited every index.
C9_NilOptionsSequential ==
    [][optionsArg.isNil =>
           /\ thread' <= 1
           /\ Cardinality(Started') <= 1
           /\ Len(claims') <= 1
           /\ \A k \in 1..Len(claims') : claims'[k] = <<0, Size(in)>>
           /\ \A i \in Indices :
                  visits'[i] # visits[i] =>
                      /\ visits[i] = 0
                      /\ visits'[i] = 1
                      /\ i = Cardinality({j \in Indices : visits[j] > 0})
           /\ (mainPC' = "returned" /\ ~SafeNil) =>
                  /\ thread' = 1
                  /\ Len(claims') = 1
                  /\ \A i \in Indices : visits'[i] = 1]_vars

C9_Witness ==
    /\ optionsArg.isNil
    /\ mainPC = "returned"
    /\ Size(in) = 4
    /\ AllVisitedOnce
    /\ fnErrs # {}

(* -------------------------------- C10 --------------------------------- *)

\* C10: options with NumThreads or OpsPerThread below 1 are used as if the
\* field were 1: the fields are set to max(1, field), max(1, NumThreads)
\* goroutines are started, every batch holds max(1, OpsPerThread) indices,
\* the call cannot get stuck or claim without end before it returns, and
\* (the visitor not failing) every index is visited exactly once.
C10_BelowOneIsOne ==
    (/\ ~optionsArg.isNil
     /\ optionsArg.NumThreads < 1 \/ optionsArg.OpsPerThread < 1
     /\ mainPC # "call"
     /\ ~SafeNil) =>
        /\ options.NumThreads = AtLeastOne(optionsArg.NumThreads)
        /\ options.OpsPerThread = AtLeastOne(optionsArg.OpsPerThread)
        /\ Cardinality(Started) <= AtLeastOne(optionsArg.NumThreads)
        /\ (mainPC # "spawn") => Cardinality(Started) = AtLeastOne(optionsArg.NumThreads)
        /\ \A k \in 1..Len(claims) :
               claims[k][2] - claims[k][1] = AtLeastOne(optionsArg.OpsPerThread)
        /\ Len(claims) * AtLeastOne(optionsArg.OpsPerThread)
               < Size(in) + AtLeastOne(optionsArg.OpsPerThread)
        /\ \A i \in Indices : visits[i] <= 1
        /\ ~WrappedNil => (mainPC = "returned" \/ ENABLED Next)
        /\ (Ended /\ fn # "nil" /\ fnErrs = {}) =>
               AllVisitedOnce /\ mainPC = "returned" /\ result = Nil

C10_Witness ==
    /\ ~optionsArg.isNil
    /\ optionsArg.NumThreads = -1
    /\ optionsArg.OpsPerThread = -1
    /\ mainPC = "returned"
    /\ Size(in) = 4
    /\ Len(claims) = 4
    /\ AllVisitedOnce
    /\ Cardinality(Started) = 1

(* -------------------------------- C11 --------------------------------- *)

\* the batch a goroutine is running: the claim that holds its localIndex
BatchOf(t) ==
    CHOOSE k \in 1..Len(claims) : claims[k][1] <= w[t].localIndex /\ w[t].localIndex < claims[k][2]

\* C11: in every batch the k-th invocation of the visitor (k = 0, 1, ...)
\* receives the index batchStart + k with the point PointSafe gives for
\* that index, so IndexSafe(point) = index at every invocation: the first
\* invocation of a batch gets the start of the claim, every later one the
\* next index and the point one Increment after its predecessor's, and when
\* an invocation starts, exactly the indices of the batch below its index
\* have been visited.
C11_BatchInOrder ==
    [][\A t \in Threads :
           /\ (w[t].pc = "locked" /\ w'[t].pc = "call") =>
                  /\ claims' # claims
                  /\ w'[t].localIndex = claims'[Len(claims')][1]
           /\ (w[t].pc = "call" /\ w'[t].pc = "infn") =>
                  /\ PointSafe(in, w[t].localIndex) = [p |-> w[t].localPoint, err |-> Nil]
                  /\ IndexSafe(in, w[t].localPoint) = [index |-> w[t].localIndex, err |-> Nil]
                  /\ \E k \in 1..Len(claims) :
                         /\ claims[k][1] <= w[t].localIndex
                         /\ w[t].localIndex < claims[k][2]
                         /\ \A i \in Indices :
                                (claims[k][1] <= i /\ i < claims[k][2]) =>
                                    visits[i] = IF i < w[t].localIndex THEN 1 ELSE 0
           /\ (w[t].pc = "infn" /\ w'[t].pc = "call") =>
                  /\ w'[t].localIndex = w[t].localIndex + 1
                  /\ IncrementFast(in, w[t].localPoint) = [p |-> w'[t].localPoint, cont |-> TRUE]
                  /\ BatchOf(t)' = BatchOf(t)]_vars

C11_Witness ==
    /\ in.Dims = <<2, 2>>
    /\ options.NumThreads = 2
    /\ \E t \in Threads :
           /\ w[t].pc = "infn"
           /\ w[t].localIndex = 3
           /\ w[t].localPoint = <<1, 1>>
           /\ claims[BatchOf(t)] = <<2, 4>>

(* -------------------------------- C12 --------------------------------- *)

\* C12: for every valid shape and every index i of [0, Size()), PointSafe(i)
\* succeeds with a point that passes CheckPoint, and IndexSafe of that
\* point returns i.
C12_IndexOfPoint ==
    (op = "PointSafe" /\ 0 <= arg /\ arg < Size(in)) =>
        /\ ret.err = Nil
        /\ CheckPoint(in, ret.p) = Nil
        /\ IndexSafe(in, ret.p) = [index |-> arg, err |-> Nil]

C12_Witness ==
    /\ op = "PointSafe"
    /\ in.Dims = <<2, 3, 2>>
    /\ arg = 11
    /\ ret.p = <<1, 2, 1>>
    /\ ret.err = Nil

(* -------------------------------- C13 --------------------------------- *)

\* p[0] + the sum over i >= 1 of p[i] * Sizes[i-1], taken from axis i (1-based) on
RECURSIVE WeightedSum(_, _)
WeightedSum(p, i) ==
    IF i > Len(p) THEN 0
    ELSE (IF i = 1 THEN p[1] ELSE p[i] * in.Sizes[i - 1]) + WeightedSum(p, i + 1)

\* the points that pass CheckPoint
ValidPoints == {p \in PointArgs(in.Dims) : CheckPoint(in, p) = Nil}

\* C13: for every valid shape and every point p that passes CheckPoint,
\* IndexSafe(p) returns an index of [0, Size()) equal to
\* p[0] + sum of p[i] * Sizes[i-1], PointSafe of that index returns p, and
\* no other valid point has that index.
C13_PointOfIndex ==
    (op = "IndexSafe" /\ CheckPoint(in, before) = Nil) =>
        /\ ret.err = Nil
        /\ 0 <= ret.n /\ ret.n < Size(in)
        /\ ret.n = WeightedSum(before, 1)
        /\ PointSafe(in, ret.n) = [p |-> before, err |-> Nil]
        /\ \A q \in ValidPoints : IndexSafe(in, q).index = ret.n => q = before
        /\ Cardinality(ValidPoints) = Size(in)

C13_Witness ==
    /\ op = "IndexSafe"
    /\ in.Dims = <<2, 3, 2>>
    /\ before = <<1, 2, 1>>
    /\ ret.n = 11
    /\ ret.err = Nil

(* -------------------------------- C14 --------------------------------- *)

\* the product of the elements of a sequence
RECURSIVE Product(_)
Product(s) == IF Len(s) = 0 THEN 1 ELSE Head(s) * Product(Tail(s))

\* C14: for every valid dims, NewInterpreterSafe yields Dims = dims and a
\* table with Sizes[0] = Dims[0] and Sizes[i] = Sizes[i-1] * Dims[i] for
\* i >= 1, and Size() returns Sizes[N-1], the product of all Dims.
C14_RunningSizes ==
    /\ (op = "NewInterpreterSafe" /\ ret.err = Nil) =>
           /\ in.Dims = dims
           /\ Len(in.Sizes) = Len(dims)
           /\ in.Sizes[1] = in.Dims[1]
           /\ \A i \in 2..Len(dims) : in.Sizes[i] = in.Sizes[i - 1] * in.Dims[i]
    /\ op = "Size" =>
           /\ ret.n = in.Sizes[Len(in.Dims)]
           /\ ret.n = Product(in.Dims)

C14_Witness ==
    /\ op = "Size"
    /\ in.Dims = <<2, 3, 2>>
    /\ in.Sizes = <<2, 6, 12>>
    /\ ret.n = 12

(* -------------------------------- C15 --------------------------------- *)

\* the maximal point of the Interpreter: Dims[i] - 1 on every axis
MaxPoint == [i \in 1..Len(in.Dims) |-> in.Dims[i] - 1]

\* C15: in a run of Increments from the all-zero point, the k-th call
\* (k = 1 .. Size()-1) is applied to the point of index k-1, returns true
\* and leaves the point of index k; the call number Size() is applied to
\* the maximal point, returns false and leaves the all-zero point.
C15_IncrementRun ==
    (op = "IncrementSafe" /\ incs >= 1) =>
        /\ incs <= Size(in)
        /\ ret.err = Nil
        /\ IndexSafe(in, before) = [index |-> incs - 1, err |-> Nil]
        /\ IF incs < Size(in)
           THEN /\ ret.b
                /\ IndexSafe(in, buf) = [index |-> incs, err |-> Nil]
           ELSE /\ ~ret.b
                /\ before = MaxPoint
                /\ buf = ZeroPoint

C15_Witness ==
    /\ op = "IncrementSafe"
    /\ in.Dims = <<2, 3, 2>>
    /\ incs = 12
    /\ before = <<1, 2, 1>>
    /\ buf = <<0, 0, 0>>
    /\ ~ret.b

(* -------------------------------- C16 --------------------------------- *)

\* C16: for every valid shape and valid point p, Decrement of a p other
\* than the all-zero point returns true and leaves the point whose index
\* is one less; Decrement of the all-zero point returns false and leaves
\* the maximal point.
C16_Decrement ==
    (op = "DecrementSafe" /\ CheckPoint(in, before) = Nil) =>
        /\ ret.err = Nil
        /\ IF before # ZeroPoint
           THEN /\ ret.b
                /\ IndexSafe(in, buf) = [index |-> IndexSafe(in, before).index - 1, err |-> Nil]
           ELSE /\ ~ret.b
                /\ buf = MaxPoint

C16_Witness ==
    /\ op = "DecrementSafe"
    /\ in.Dims = <<2, 3, 2>>
    /\ before = <<0, 0, 0>>
    /\ buf = <<1, 2, 1>>
    /\ ~ret.b
    /\ ret.err = Nil

(* -------------------------------- C17 --------------------------------- *)

\* IncreaseBySafe was called on a valid point
IncreasedValid == op = "IncreaseBySafe" /\ CheckPoint(in, before) = Nil

\* C17 as stated: for every valid shape (Size() >= 1), valid point and
\* change with |change| >= Size(), IncreaseBySafe returns ErrChangeTooBig
\* and leaves the point unchanged.
C17_ChangeTooBig ==
    (IncreasedValid /\ (arg >= Size(in) \/ arg <= -Size(in))) =>
        /\ ret.err = ErrChangeTooBig
        /\ buf = before

\* C17 amended: for every valid shape, valid point and change other than
\* 1 and -1 with |change| >= Size(), IncreaseBySafe returns false with
\* ErrChangeTooBig and leaves the point unchanged; a change of 1 or -1 on
\* a shape of Size() 1 is an Increment or Decrement, which returns
\* (false, nil) and leaves the all-zero point.
C17_ChangeTooBigBeyondOne ==
    (IncreasedValid /\ (arg >= Size(in) \/ arg <= -Size(in))) =>
        IF arg \in {1, -1}
        THEN /\ Size(in) = 1
             /\ ret.err = Nil
             /\ ~ret.b
             /\ buf = before
        ELSE /\ ret.err = ErrChangeTooBig
             /\ ~ret.b
             /\ buf = before

C17_Witness ==
    /\ op = "IncreaseBySafe"
    /\ in.Dims = <<2, 3, 2>>
    /\ before = <<1, 2, 1>>
    /\ arg = -12
    /\ ret.err = ErrChangeTooBig
    /\ buf = before

(* -------------------------------- C18 --------------------------------- *)

\* the point after c successive IncrementFast (c > 0) or -c successive
\* DecrementFast (c < 0) from p
RECURSIVE Steps(_, _)
Steps(p, c) ==
    IF c = 0 THEN p
    ELSE IF c > 0 THEN Steps(IncrementFast(in, p).p, c - 1)
    ELSE Steps(DecrementFast(in, p).p, c + 1)

\* C18: for every valid point p with index i and every change c with
\* 0 < |c| < Size(): if 0 <= i + c < Size(), IncreaseBySafe returns
\* (true, nil) and p becomes the point of i + c, which is the point |c|
\* Increments (c > 0) or Decrements (c < 0) lead to; otherwise it returns
\* (false, nil).
C18_IncreaseBy ==
    (IncreasedValid /\ arg # 0 /\ arg < Size(in) /\ arg > -Size(in)) =>
        LET newIndex == IndexSafe(in, before).index + arg
        IN  /\ ret.err = Nil
            /\ IF 0 <= newIndex /\ newIndex < Size(in)
               THEN /\ ret.b
                    /\ PointSafe(in, newIndex) = [p |-> buf, err |-> Nil]
                    /\ buf = Steps(before, arg)
               ELSE ~ret.b

C18_Witness ==
    /\ op = "IncreaseBySafe"
    /\ in.Dims = <<2, 3, 2>>
    /\ before = <<1, 2, 1>>
    /\ arg = -5
    /\ buf = <<0, 0, 1>>
    /\ ret.b
    /\ ret.err = Nil

(* -------------------------------- C19 --------------------------------- *)

\* C19: IncreaseBySafe with change 0 returns (true, nil) and leaves the
\* point buffer as it was, for every point argument, valid or not.
C19_ZeroChange ==
    (op = "IncreaseBySafe" /\ arg = 0) =>
        /\ ret.b
        /\ ret.err = Nil
        /\ buf = before

C19_Witness ==
    /\ op = "IncreaseBySafe"
    /\ arg = 0
    /\ in.Dims = <<2, 3, 2>>
    /\ before = <<-1, 3, 0>>
    /\ CheckPoint(in, before) # Nil
    /\ buf = before
    /\ ret.b
    /\ ret.err = Nil

(* -------------------------------- C20 --------------------------------- *)

\* coordinate i (1-based) of p is below 0 or not below Dims
OutOfBounds(p, i) == p[i] < 0 \/ p[i] >= in.Dims[i]

\* C20: CheckPoint returns ErrZeroPoint for a point of length 0; else a
\* LengthMismatchError (actual, expected) for a length other than N; else
\* a PointOutOfBoundsError for the lowest axis whose value is < 0 or
\* >= Dims[axis]; and nil exactly when the length is N and every
\* coordinate i lies in [0, Dims[i]).
C20_CheckPointPrecedence ==
    op = "CheckPoint" =>
        LET N == Len(in.Dims)
        IN  /\ Len(before) = 0 => ret.err = ErrZeroPoint
            /\ (Len(before) # 0 /\ Len(before) # N) =>
                   ret.err = LengthMismatchError(Len(before), N)
            /\ (Len(before) = N /\ \E i \in 1..N : OutOfBounds(before, i)) =>
                   /\ ret.err.kind = "PointOutOfBoundsError"
                   /\ ret.err.args[1] + 1 \in 1..N
                   /\ OutOfBounds(before, ret.err.args[1] + 1)
                   /\ \A j \in 1..ret.err.args[1] : ~OutOfBounds(before, j)
            /\ (ret.err = Nil) <=>
                   (Len(before) = N /\ \A i \in 1..N : ~OutOfBounds(before, i))
            /\ buf = before

C20_Witness ==
    /\ op = "CheckPoint"
    /\ in.Dims = <<2, 3, 2>>
    /\ before = <<0, 3, -1>>
    /\ ret.err = PointOutOfBoundsError(1)

(* -------------------------------- C21 --------------------------------- *)

C22_ErrorLeavesPoint ==
    (op \in {"IncrementSafe", "DecrementSafe", "IncreaseBySafe"} /\ ret.err # Nil) =>
        /\ buf = before
        /\ ~ret.b

C22_Witness ==
    /\ op = "IncrementSafe"
    /\ in.Dims = <<2, 3, 2>>
    /\ before = <<1, 3, -1>>
    /\ ret.err = PointOutOfBoundsError(1)
    /\ buf = before

(* -------------------------------- C23 --------------------------------- *)

\* two indices lie in the same claimed batch
SameBatch(i, j) ==
    \E k \in 1..Len(claims) :
        /\ claims[k][1] <= i /\ i < claims[k][2]
        /\ claims[k][1] <= j /\ j < claims[k][2]

\* C23: the visitor's error a goroutine remembers is that of the lowest
\* failing index of its batch, and with a single goroutine the traversal
\* returns the error of the lowest failing index.
C23_FirstFailureOfBatch ==
    /\ \A t \in Threads :
           w[t].localErr.kind = "VisitorError" =>
               \A e \in fnErrs :
                   SameBatch(e.args[1], w[t].localErr.args[1]) =>
                       w[t].localErr.args[1] <= e.args[1]
    /\ (mainPC = "returned" /\ options.NumThreads = 1 /\ fnErrs # {}) =>
           /\ result \in fnErrs
           /\ \A e \in fnErrs : result.args[1] <= e.args[1]

(* -------------------------------- C24 --------------------------------- *)

\* C24: the sticky error is written only by the goroutine that holds the
\* lock and only while it is nil, so it is never replaced or cleared, and
\* the error the traversal hands back is the one held there.
C24_StickyWriteOnce ==
    [][/\ err' # err =>
              /\ err = Nil
              /\ \E t \in Threads : mux = t /\ w[t].pc = "locked" /\ w'[t].pc = "exiting"
       /\ (mainPC = "wait" /\ mainPC' = "returned") => result' = err
       /\ (mainPC = "wait" /\ mainPC' = "panicked") => panicValue' = err]_vars

C24_Witness ==
    /\ mainPC = "returned"
    /\ result = err
    /\ err.kind = "VisitorError"
    /\ \E t \in Threads :
           /\ w[t].pc = "done"
           /\ w[t].localErr.kind = "VisitorError"
           /\ w[t].localErr # err

(* -------------------------------- C25 --------------------------------- *)

\* C25: the cursor changes only in the critical section of the goroutine
\* that holds the lock, from a value below Size() and by + OpsPerThread,
\* which is one claim; the j-th claim (j = 0, 1, ...) starts at
\* j * OpsPerThread below Size(), moves the cursor to (j+1) * OpsPerThread,
\* and its goroutine runs [j * OpsPerThread, min((j+1) * OpsPerThread, Size())).
C25_ClaimsInOrder ==
    [][/\ (index' # index \/ claims' # claims) =>
              \E t \in Threads :
                  /\ mux = t
                  /\ w[t].pc = "locked"
                  /\ index < Size(in)
                  /\ index' = index + options.OpsPerThread
                  /\ claims' = Append(claims, <<index, index'>>)
                  /\ w'[t].localIndex = index
                  /\ w'[t].localEnd = IF index' > Size(in) THEN Size(in) ELSE index'
       /\ \A k \in 1..Len(claims') :
              /\ claims'[k] = <<(k - 1) * options'.OpsPerThread, k * options'.OpsPerThread>>
              /\ claims'[k][1] < Size(in)
       /\ index' = Len(claims') * options'.OpsPerThread]_vars

C25_Witness ==
    /\ Size(in) = 4
    /\ options.OpsPerThread = 3
    /\ options.NumThreads = 2
    /\ claims = <<(<<0, 3>>), (<<3, 6>>)>>
    /\ index = 6
    /\ \E t \in Threads : w[t].localIndex = 3 /\ w[t].localEnd = 4 /\ w[t].pc = "call"

(* -------------------------------- C26 --------------------------------- *)

\* C26: a goroutine that is about to call or is inside the visitor does not
\* hold the lock, and while one is inside the visitor with the lock free,
\* any other goroutine at the top of its loop can take the lock.
C26_VisitorOutsideLock ==
    \A t \in Threads :
        w[t].pc \in {"call", "infn"} =>
            /\ mux # t
            /\ \A u \in Threads \ {t} :
                   (w[u].pc = "top" /\ mux = 0 /\ ~Crashed) => ENABLED Lock(u)

C26_Witness ==
    \E t \in Threads, u \in Threads :
        /\ w[t].pc = "infn"
        /\ w[t].localIndex = 0
        /\ w[u].pc = "locked"
        /\ mux = u
        /\ index = options.OpsPerThread
        /\ Size(in) > index

(* -------------------------------- C27 --------------------------------- *)

\* the kinds of error a call can end with when no fault occurred
FaultFree == {"nil", "VisitorError", "ErrNilFunction"}

\* C27: no traversal records ErrPointOutOfSync or a validation error of a
\* point or an index: not in the sticky error, not in a goroutine's
\* localErr, not as a panic of Point, not in what the call hands back.
C27_NoFault ==
    /\ ~FaultRecorded
    /\ panicValue \in {Nil, NilDereference}
    /\ result.kind \in FaultFree
    /\ err.kind \in FaultFree

C27_Witness ==
    /\ mainPC = "returned"
    /\ options.OpsPerThread = 1
    /\ options.NumThreads = 2
    /\ in.Dims = <<2, 2>>
    /\ Len(claims) = 4
    /\ AllVisitedOnce
    /\ result = Nil

(* -------------------------------- C28 --------------------------------- *)

\* C28: once the shared locals exist, whenever the lock is free, no error
\* is recorded and the cursor is below Size(), the shared point is the
\* point of the cursor; and the local point of a goroutine running a batch
\* is the point of its local index, so the one duplicated at the claim is
\* the point of the start of the batch.
C28_RunningPoint ==
    /\ (mainPC \in {"spawn", "wait"} /\ mux = 0 /\ err = Nil /\ index < Size(in)) =>
           PointSafe(in, index) = [p |-> point, err |-> Nil]
    /\ \A t \in Threads :
           w[t].pc \in {"call", "infn"} =>
               PointSafe(in, w[t].localIndex) = [p |-> w[t].localPoint, err |-> Nil]

C28_Witness ==
    /\ in.Dims = <<2, 2>>
    /\ options.OpsPerThread = 1
    /\ mux = 0
    /\ err = Nil
    /\ index = 3
    /\ point = <<1, 1>>
    /\ \E t \in Threads : w[t].pc = "call" /\ w[t].localIndex = 2 /\ w[t].localPoint = <<0, 1>>

(* -------------------------------- C29 --------------------------------- *)

\* C29: for every valid shape and valid point p, a Decrement after an
\* Increment and an Increment after a Decrement leave p in the buffer, also
\* across the wrap; the first call returns false exactly when p is the
\* maximal point (Increment) or the all-zero point (Decrement), and the
\* undoing call returns false exactly when the first one did.
C29_MutuallyInverse ==
    first # NoFirst =>
        /\ op = IF first.op = "IncrementSafe" THEN "DecrementSafe" ELSE "IncrementSafe"
        /\ ret.err = Nil
        /\ buf = first.p
        /\ ret.b = first.b
        /\ first.b <=> first.p # (IF first.op = "IncrementSafe" THEN MaxPoint ELSE ZeroPoint)

C29_Witness ==
    /\ first = [op |-> "IncrementSafe", p |-> <<1, 2, 1>>, b |-> FALSE]
    /\ op = "DecrementSafe"
    /\ in.Dims = <<2, 3, 2>>
    /\ before = <<0, 0, 0>>
    /\ buf = <<1, 2, 1>>
    /\ ~ret.b

====
